---- MODULE Spec2Model ----
(***************************************************************************)
(* Model of the PDF margin worker (src/worker.js, the revision that starts *)
(* at line 417: raster bounds detection, two-pass tablet layout, box       *)
(* validation).  One PROCESS_PDF request is followed from its arrival to   *)
(* the single COMPLETE / ERROR message it posts.                           *)
(*                                                                         *)
(* JavaScript numbers are modelled as exact rationals [n |-> , d |-> ]     *)
(* with d > 0 and gcd(n, d) = 1; rounding of doubles is not modelled.      *)
(* The document engine (PDFium) is the environment: which pages load,      *)
(* whether a bitmap can be created, whether saving succeeds and what a     *)
(* page renders to are inputs.                                             *)
(***************************************************************************)
EXTENDS Integers, Sequences, FiniteSets, TLC

VARIABLES
    pc,                    \* position of the handler: "start", "load", "pass1", "pass2", "fixed", "done"
    config,                \* e.data.config, sanitized in place by the handler
    docValid,              \* whether the input bytes are a well-formed document
    doc,                   \* the page kinds of the loaded document
    count,                 \* FPDF_GetPageCount(doc)
    i,                     \* loop index of the running pass (0-based)
    pageBounds,            \* Pass 1 result per page
    typicalContentHeight,  \* the median content height
    stats,                 \* epsilon, targetRatio, basePageHeight, basePageWidth of Pass 2
    dims,                  \* per page: natural and corrected dimensions planned in Pass 2
    computed,              \* per page: the box applyMarginsRaw computed
    mediaBox,              \* the engine's page boxes (MediaBox, and CropBox with it)
    writes,                \* per page: number of FPDFPage_SetMediaBox calls
    outbox,                \* messages posted to the caller
    faults,                \* engine failures injected so far
    hist,                  \* bookkeeping: aggregations, loadPage calls, save calls, failed
                           \* inspections (0-based page indices), whether saving failed,
                           \* the configuration as it was received
    heap,                  \* what the request holds of the engine: allocations, the
                           \* document handle, a loaded page; and the releases so far
    worker                 \* the worker around the handler: pdfiumModule, the calls of
                           \* FPDF_InitLibrary, the requests delivered and where each
                           \* stands, the microtask queue, the messages posted

vars == <<pc, config, docValid, doc, count, i, pageBounds, typicalContentHeight, stats,
          dims, computed, mediaBox, writes, outbox, faults, hist, heap, worker>>

(***************************************************************************)
(* Bounds of the model.                                                    *)
(***************************************************************************)
MaxPages == 3
MaxRequests == 2
MaxFaults == 1

(***************************************************************************)
(* Numbers.                                                                *)
(***************************************************************************)
Abs(x) == IF x < 0 THEN -x ELSE x

\* The operations on numbers are functions: their arguments are values.
GCD[a \in Nat, b \in Nat] == IF b = 0 THEN a ELSE GCD[b, a % b]

Rat[n \in Int, d \in Int] ==
    LET s == IF d < 0 THEN -1 ELSE 1
        g == GCD[Abs(n), Abs(d)]
    IN  [n |-> (s * n) \div g, d |-> (s * d) \div g]

R(k) == [n |-> k, d |-> 1]

Num == [n : Int, d : Int]

RAdd[a \in Num, b \in Num] == Rat[a.n * b.d + b.n * a.d, a.d * b.d]
RSub[a \in Num, b \in Num] == Rat[a.n * b.d - b.n * a.d, a.d * b.d]
RMul[a \in Num, b \in Num] == Rat[a.n * b.n, a.d * b.d]
\* a / b for b # 0; the callers below never divide by zero.
RDiv[a \in Num, b \in Num] == Rat[a.n * b.d, a.d * b.n]
RNeg[a \in Num] == [n |-> -a.n, d |-> a.d]
RAbs[a \in Num] == [n |-> Abs(a.n), d |-> a.d]

RLt[a \in Num, b \in Num] == a.n * b.d < b.n * a.d
RLe[a \in Num, b \in Num] == a.n * b.d <= b.n * a.d
RGt[a \in Num, b \in Num] == RLt[b, a]
RGe[a \in Num, b \in Num] == RLe[b, a]

RMax[a \in Num, b \in Num] == IF RLt[a, b] THEN b ELSE a
RMin[a \in Num, b \in Num] == IF RLt[b, a] THEN b ELSE a

\* Math.ceil, as an integer
RCeil[a \in Num] == -((-a.n) \div a.d)

\* x / y > r as IEEE-754 evaluates it: x / 0 is +Infinity for x > 0,
\* -Infinity for x < 0 and NaN for x = 0, and only +Infinity exceeds r.
DivGt(x, y, r) ==
    IF y.n = 0 THEN x.n > 0 ELSE RGt[RDiv[x, y], r]

\* Number.isFinite: every number of the model is a finite rational.
IsFinite(v) == v.d # 0

(***************************************************************************)
(* The pages a document is made of.  A page kind fixes the page box the    *)
(* engine reports and what the engine renders for it: rectangles of        *)
(* pixels (bitmap coordinates, top-left origin, inclusive) with their      *)
(* BGR colour; every other pixel keeps the white fill.                     *)
(***************************************************************************)
MAX_BITMAP_DIM == 1000
THRESHOLD == 250

Box(l, b, r, t) == [has |-> TRUE, L |-> R(l), B |-> R(b), R |-> R(r), T |-> R(t)]
NoBox == [has |-> FALSE, L |-> R(0), B |-> R(0), R |-> R(0), T |-> R(0)]

Gray(v) == <<v, v, v, 255>>
Ink(x0, y0, x1, y1, c) == [x0 |-> x0, y0 |-> y0, x1 |-> x1, y1 |-> y1, c |-> c]

PageKinds == {"body", "title", "blank", "far"}

\* pages for the cases at the edge of detection: the same drawing on the same
\* narrow page at gray 252 ("faint"), at gray 229 ("light") and with one
\* channel only below the threshold ("tinted"); a page box of zero width
\* ("flatW"), of zero height ("flatH"), and an inverted one ("flipped"); the
\* same drawing again in a near-white colour of alpha 0 ("clear"); the narrow
\* page filled from edge to edge with a gray rectangle ("backdrop"), and the
\* same fill with the drawing of "light" in black on it ("backed"); three black
\* rectangles below each other, the middle one the widest ("stepped")
EdgeKinds == {"faint", "light", "tinted", "clear", "flatW", "flatH", "flipped",
              "backdrop", "backed", "stepped"}

KindBox(k) ==
    CASE k = "body"  -> Box(0, 0, 600, 800)
      [] k = "title" -> Box(0, 0, 600, 800)
      [] k = "blank" -> Box(0, 0, 600, 800)
      [] k = "far"   -> Box(9999000, 0, 9999600, 2400)
      [] k = "faint"  -> Box(0, 0, 80, 800)
      [] k = "light"  -> Box(0, 0, 80, 800)
      [] k = "tinted" -> Box(0, 0, 80, 800)
      [] k = "clear"  -> Box(0, 0, 80, 800)
      [] k = "flatW"  -> Box(100, 0, 100, 800)
      [] k = "flatH"  -> Box(0, 50, 600, 50)
      [] k = "flipped" -> Box(80, 800, 0, 0)
      [] k = "backdrop" -> Box(0, 0, 80, 800)
      [] k = "backed" -> Box(0, 0, 80, 800)
      [] k = "stepped" -> Box(0, 0, 80, 800)

\* FPDF_RenderPageBitmap: the pixels the engine paints over the white fill.
KindInk(k) ==
    CASE k = "body"  -> {Ink(50, 50, 699, 949, Gray(0))}
      [] k = "title" -> {Ink(250, 100, 499, 199, Gray(0))}
      [] k = "far"   -> {Ink(25, 50, 224, 949, Gray(0))}
      [] k = "faint"  -> {Ink(20, 100, 59, 299, Gray(252))}
      [] k = "light"  -> {Ink(20, 100, 59, 299, Gray(229))}
      [] k = "tinted" -> {Ink(20, 100, 59, 299, <<255, 249, 250, 255>>)}
      [] k = "clear"  -> {Ink(20, 100, 59, 299, <<251, 255, 250, 0>>)}
      [] k = "flatW"  -> {Ink(0, 0, 10, 10, Gray(0))}
      [] k = "flatH"  -> {Ink(0, 0, 10, 10, Gray(0))}
      [] k = "flipped" -> {Ink(20, 100, 59, 299, Gray(0))}
      [] k = "backdrop" -> {Ink(0, 0, 99, 999, Gray(200))}
      [] k = "backed" -> {Ink(0, 0, 99, 999, Gray(200)), Ink(20, 100, 59, 299, Gray(0))}
      [] k = "stepped" -> {Ink(40, 100, 59, 104, Gray(0)), Ink(20, 105, 79, 109, Gray(0)),
                            Ink(30, 110, 49, 114, Gray(0))}
      [] OTHER       -> {}

\* One pixel of the rendered bitmap as <<B, G, R, A>>.
Pixel(ink, x, y) ==
    IF \E r \in ink : x >= r.x0 /\ x <= r.x1 /\ y >= r.y0 /\ y <= r.y1
    THEN (CHOOSE r \in ink : x >= r.x0 /\ x <= r.x1 /\ y >= r.y0 /\ y <= r.y1).c
    ELSE Gray(255)

\* variant: a pixel counts only when all three channels are below the threshold
IsContentAll(ink, x, y) ==
    LET px == Pixel(ink, x, y)
    IN  px[1] < THRESHOLD /\ px[2] < THRESHOLD /\ px[3] < THRESHOLD

\* the test every scan loop applies to a pixel
IsContent(ink, x, y) ==
    LET px == Pixel(ink, x, y)
    IN  px[1] < THRESHOLD \/ px[2] < THRESHOLD \/ px[3] < THRESHOLD

RowHasContent(ink, y, bmWidth) == \E x \in 0..(bmWidth - 1) : IsContent(ink, x, y)

\* Loop A: rows lo..hi from the top, first row holding a content pixel, or -1.
\* The range is split in halves to keep the evaluation depth small; the
\* rows are still visited in ascending order.
RECURSIVE FindTop(_, _, _, _)
FindTop(ink, lo, hi, bmWidth) ==
    IF lo > hi THEN -1
    ELSE IF lo = hi THEN (IF RowHasContent(ink, lo, bmWidth) THEN lo ELSE -1)
    ELSE LET mid == (lo + hi) \div 2
             a == FindTop(ink, lo, mid, bmWidth)
         IN  IF a # -1 THEN a ELSE FindTop(ink, mid + 1, hi, bmWidth)

\* Loop B: rows hi..lo from the bottom, first row holding a content pixel, or -1.
RECURSIVE FindBottom(_, _, _, _)
FindBottom(ink, lo, hi, bmWidth) ==
    IF lo > hi THEN -1
    ELSE IF lo = hi THEN (IF RowHasContent(ink, lo, bmWidth) THEN lo ELSE -1)
    ELSE LET mid == (lo + hi) \div 2
             a == FindBottom(ink, mid + 1, hi, bmWidth)
         IN  IF a # -1 THEN a ELSE FindBottom(ink, lo, mid, bmWidth)

\* variant: the columns of the first content row are kept for every row
ScanRowFirst(ink, y, st, bmWidth) ==
    LET SL == {x \in 0..(bmWidth - 1) : IsContent(ink, x, y)}
    IN  IF st[2] # -1 \/ SL = {} THEN st
        ELSE << CHOOSE x \in SL : \A z \in SL : x <= z,
                CHOOSE x \in SL : \A z \in SL : x >= z >>

\* Loop C, one row: scan from the left up to the current minX and from the
\* right down to the current maxX.  st = <<minX, maxX>>.
ScanRow(ink, y, st, bmWidth) ==
    LET SL == {x \in 0..(st[1] - 1) : IsContent(ink, x, y)}
        SR == {x \in (st[2] + 1)..(bmWidth - 1) : IsContent(ink, x, y)}
    IN  << IF SL = {} THEN st[1] ELSE CHOOSE x \in SL : \A z \in SL : x <= z,
           IF SR = {} THEN st[2] ELSE CHOOSE x \in SR : \A z \in SR : x >= z >>

\* Loop C: rows lo..hi in ascending order, threading <<minX, maxX>>.  The
\* test on s1 makes the first half be evaluated before the second starts.
RECURSIVE ScanRows(_, _, _, _, _)
ScanRows(ink, lo, hi, st, bmWidth) ==
    IF lo > hi THEN st
    ELSE IF lo = hi THEN ScanRow(ink, lo, st, bmWidth)
    ELSE LET mid == (lo + hi) \div 2
             s1 == ScanRows(ink, lo, mid, st, bmWidth)
         IN  IF s1[1] = s1[1]
             THEN ScanRows(ink, mid + 1, hi, <<s1[1], s1[2]>>, bmWidth)
             ELSE st

Bounds(l, b, r, t, e) == [L |-> l, B |-> b, R |-> r, T |-> t, isEmpty |-> e, threw |-> FALSE]
BitmapError == [L |-> R(0), B |-> R(0), R |-> R(0), T |-> R(0), isEmpty |-> TRUE, threw |-> TRUE]

\* variant: an empty page keeps the box of the page
EmptyPageWhole(origL, origB, origR, origT) == Bounds(origL, origB, origR, origT, TRUE)

\* "Handle Empty Page": the center point of the page, isEmpty: true
EmptyPage(origL, origB, origR, origT) ==
    LET midX == RDiv[RAdd[origL, origR], R(2)]
        midY == RDiv[RAdd[origB, origT], R(2)]
    IN  Bounds(midX, midY, midX, midY, TRUE)

\* getTightContentBounds; bitmapOk is the engine's answer to
\* FPDFBitmap_CreateEx, ink what it renders.  threw = TRUE stands for the
\* Error the function throws.
getTightContentBounds(ink, origL, origB, origR, origT, bitmapOk, maxBitmapDim) ==
    LET normL == RMin[origL, origR]
        normR == RMax[origL, origR]
        normB == RMin[origB, origT]
        normT == RMax[origB, origT]
        normW == RSub[normR, normL]
        normH == RSub[normT, normB]
        maxDim == RMax[normW, normH]
        SCALE == IF RGt[maxDim, R(0)] THEN RDiv[R(maxBitmapDim), maxDim] ELSE R(1)
        bmWidth == RCeil[RMul[normW, SCALE]]
        bmHeight == RCeil[RMul[normH, SCALE]]
        minY == FindTop(ink, 0, bmHeight - 1, bmWidth)
        maxY == IF minY # -1 THEN FindBottom(ink, minY, bmHeight - 1, bmWidth) ELSE -1
        xs == IF minY # -1 THEN ScanRows(ink, minY, maxY, <<bmWidth, -1>>, bmWidth)
                           ELSE <<bmWidth, -1>>
        minX == xs[1]
        maxX == xs[2]
    IN  IF bmWidth <= 0 \/ bmHeight <= 0
        THEN Bounds(origL, origB, origR, origT, TRUE)
        ELSE IF ~bitmapOk THEN BitmapError
        ELSE IF minY = -1 THEN EmptyPage(origL, origB, origR, origT)
        ELSE Bounds(RAdd[normL, RDiv[R(minX), SCALE]],
                    RSub[normT, RDiv[R(maxY + 1), SCALE]],
                    RAdd[normL, RDiv[R(maxX + 1), SCALE]],
                    RSub[normT, RDiv[R(minY), SCALE]],
                    FALSE)


\* What Pass 1 gets for a page of kind k whose box the engine reports: the
\* page box of a document is not written before Pass 2, so the call always
\* sees the box the document came with.
Detect(k, bitmapOk) ==
    getTightContentBounds(KindInk(k), KindBox(k).L, KindBox(k).B, KindBox(k).R, KindBox(k).T,
                          bitmapOk, MAX_BITMAP_DIM)

Detected == [k \in PageKinds \cup EdgeKinds |-> Detect(k, TRUE)]

\* pageBounds[i] = { isEmpty: true, L:0, B:0, R:0, T:0 }
EmptyFallback == Bounds(R(0), R(0), R(0), R(0), TRUE)

(***************************************************************************)
(* Requests.  A configuration is e.data.config as the caller sent it; the  *)
(* number [n |-> 0, d |-> 0] stands for a value that is not finite.        *)
(***************************************************************************)
NaN == [n |-> 0, d |-> 0]

Tablet(w, h, e, sd) ==
    [tablet |-> TRUE, width |-> w, height |-> h, epsilon |-> e, side |-> sd, marginSize |-> R(0)]
Fixed(m, sd) ==
    [tablet |-> FALSE, width |-> R(0), height |-> R(0), epsilon |-> R(0), side |-> sd, marginSize |-> m]

\* side "" is a configuration without a side
Configs ==
    { Tablet(R(500), R(1000), R(0), "left"),
      Tablet(R(1000), R(500), R(10), "alternating"),
      Tablet(R(1000), R(1000), R(2), ""),
      Tablet(R(1000), R(1000), R(-400), "right"),
      Tablet(R(0), R(1000), NaN, "alternating"),
      Fixed(R(500), "alternating") }

RECURSIVE SeqsUpTo(_, _)
SeqsUpTo(S, len) ==
    IF len = 0 THEN {<<>>}
    ELSE LET shorter == SeqsUpTo(S, len - 1)
         IN  shorter \cup {Append(q, e) : q \in {t \in shorter : Len(t) = len - 1}, e \in S}

Documents == SeqsUpTo(PageKinds, MaxPages)

\* documents of at most one page, of any kind
EdgeDocuments == {<<>>} \cup {<<k>> : k \in PageKinds \cup EdgeKinds}

\* configurations with every kind of target dimension and padding
RawDims == {NaN, R(-1000), R(0), R(500), R(1000)}
RawPaddings == {NaN, R(-3), R(0), R(2), R(300)}
RawConfigs ==
    {Tablet(w, h, e, "right") : w \in RawDims, h \in RawDims, e \in RawPaddings}
        \cup {Fixed(R(500), "left"), Fixed(NaN, "right")}

\* variant: a validation that forgets the sign of the dimension
SanitizeDimFiniteOnly(v) == IF ~IsFinite(v) THEN R(1000) ELSE v

\* the handler's sanitization of config.tablet
SanitizeDim(v) == IF ~IsFinite(v) \/ RLe[v, R(0)] THEN R(1000) ELSE v
SanitizeEpsilon(v) == IF ~IsFinite(v) THEN R(0) ELSE v
Sanitize(c) ==
    IF c.tablet
    THEN [c EXCEPT !.width = SanitizeDim(c.width), !.height = SanitizeDim(c.height),
                   !.epsilon = SanitizeEpsilon(c.epsilon)]
    ELSE c

(***************************************************************************)
(* Statistics.                                                             *)
(***************************************************************************)
\* the records of pageBounds
BoundsRecords == [L : Num, B : Num, R : Num, T : Num, isEmpty : BOOLEAN, threw : BOOLEAN]

\* contentHeights: b.T - b.B of the records that are not empty, in page order
ContentHeights[pb \in Seq(BoundsRecords)] ==
    IF pb = <<>> THEN <<>>
    ELSE IF Head(pb).isEmpty THEN ContentHeights[Tail(pb)]
    ELSE <<RSub[Head(pb).T, Head(pb).B]>> \o ContentHeights[Tail(pb)]

\* contentHeights.sort((a, b) => a - b)
Insert[v \in Num, sq \in Seq(Num)] ==
    IF sq = <<>> THEN <<v>>
    ELSE IF RLe[v, Head(sq)] THEN <<v>> \o sq
    ELSE <<Head(sq)>> \o Insert[v, Tail(sq)]

SortAsc[sq \in Seq(Num)] == IF sq = <<>> THEN <<>> ELSE Insert[Head(sq), SortAsc[Tail(sq)]]

\* variant: the lower middle, Math.floor((contentHeights.length - 1) / 2)
MidLow(len) == (len - 1) \div 2

\* Math.floor(contentHeights.length / 2)
Mid(len) == len \div 2

\* variant: the initial value 0 is kept when no page has content
MedianNoFallback(pb) ==
    LET contentHeights == SortAsc[ContentHeights[pb]]
    IN  IF Len(contentHeights) > 0
        THEN contentHeights[Mid(Len(contentHeights)) + 1]
        ELSE R(0)

\* typicalContentHeight: the middle element of the sorted heights, or 500
Median(pb) ==
    LET contentHeights == SortAsc[ContentHeights[pb]]
    IN  IF Len(contentHeights) > 0
        THEN contentHeights[Mid(Len(contentHeights)) + 1]
        ELSE R(500)

\* variant: the heuristic does not look at the typical height
EffectiveEpsilonAlways(typical, eps) ==
    IF RGt[eps, R(0)] /\ RLt[eps, R(5)] THEN RMul[eps, R(72)] ELSE eps

\* the unit heuristic on the local epsilon
EffectiveEpsilon(typical, eps) ==
    IF RGt[typical, R(200)] /\ RGt[eps, R(0)] /\ RLt[eps, R(5)] THEN RMul[eps, R(72)] ELSE eps

BaseStats(typical, c) ==
    LET eps == EffectiveEpsilon(typical, c.epsilon)
        targetRatio == RDiv[c.width, c.height]
        basePageHeight == RAdd[typical, RMul[eps, R(2)]]
    IN  [epsilon |-> eps, targetRatio |-> targetRatio,
         basePageHeight |-> basePageHeight,
         basePageWidth |-> RMul[basePageHeight, targetRatio]]

(***************************************************************************)
(* Layout of one page in Pass 2.                                           *)
(***************************************************************************)
\* 3. Aspect Ratio Correction: the result is <<pageWidth, pageHeight>>
AspectCorrect[pageWidth \in Num, pageHeight \in Num, targetRatio \in Num] ==
    IF DivGt(pageWidth, pageHeight, targetRatio)
    THEN <<pageWidth, RDiv[pageWidth, targetRatio]>>
    ELSE <<pageWidth, pageHeight>>

PlanPage(bounds, st) ==
    LET contentH == IF bounds.isEmpty THEN R(0) ELSE RSub[bounds.T, bounds.B]
        contentW == IF bounds.isEmpty THEN R(0) ELSE RSub[bounds.R, bounds.L]
        pageHeight == RMax[st.basePageHeight, RAdd[contentH, RMul[st.epsilon, R(2)]]]
        pageWidth == RMax[st.basePageWidth, RAdd[contentW, RMul[st.epsilon, R(2)]]]
        corrected == AspectCorrect[pageWidth, pageHeight, st.targetRatio]
    IN  [set |-> TRUE, natW |-> pageWidth, natH |-> pageHeight,
         width |-> corrected[1], height |-> corrected[2]]

NoDims == [set |-> FALSE, natW |-> R(0), natH |-> R(0), width |-> R(0), height |-> R(0)]

\* variant: alternating starts on the left, and a missing side means left
ApplyRightSwapped(c, pageIndex) ==
    c.side = "right" \/ (c.side = "alternating" /\ pageIndex % 2 = 1)

\* applyRight of applyMarginsRaw
ApplyRight(c, pageIndex) ==
    LET side == IF c.side = "" THEN "right" ELSE c.side
    IN  side = "right" \/ (side = "alternating" /\ pageIndex % 2 = 0)

\* "Clamp to ensure epsilon margins": the tentative bottom and top, shifted
\* by the same amount; the result is <<newB, newT>>
Clamp[tentativeB \in Num, newHeight \in Num, minT \in Num, maxB \in Num] ==
    LET tentativeT == RAdd[tentativeB, newHeight]
        shiftUp == RSub[minT, tentativeT]
        shiftDown == RSub[tentativeB, maxB]
    IN  IF RLt[tentativeT, minT]
        THEN <<RAdd[tentativeB, shiftUp], RAdd[tentativeT, shiftUp]>>
        ELSE IF RGt[tentativeB, maxB]
        THEN <<RSub[tentativeB, shiftDown], RSub[tentativeT, shiftDown]>>
        ELSE <<tentativeB, tentativeT>>

\* variant: content always centred in the new height
NormalizedCenter(contentCy, origB, origT) == RDiv[R(1), R(2)]

\* "Calculate normalized position (0.0 = bottom, 1.0 = top)": ratio of
\* applyMarginsRaw, with its safeOrigHeight
NormalizedPosition(contentCy, origB, origT) ==
    LET origHeight == RSub[origT, origB]
        safeOrigHeight == IF RGt[origHeight, R(0)] THEN origHeight ELSE R(1)
    IN  RDiv[RSub[contentCy, origB], safeOrigHeight]

\* variant: the margin is added on both sides
FixedMarginBoth(box, c, pageIndex) ==
    LET marginSize == IF IsFinite(c.marginSize) THEN c.marginSize ELSE R(0)
    IN  [has |-> TRUE, L |-> RSub[box.L, marginSize], B |-> box.B,
         R |-> RAdd[box.R, marginSize], T |-> box.T]

\* the fixed-margin branch of applyMarginsRaw; `config.marginSize || 0`
FixedMargin(box, c, pageIndex) ==
    LET marginSize == IF IsFinite(c.marginSize) THEN c.marginSize ELSE R(0)
    IN  [has |-> TRUE,
         L |-> IF ApplyRight(c, pageIndex) THEN box.L ELSE RSub[box.L, marginSize],
         B |-> box.B,
         R |-> IF ApplyRight(c, pageIndex) THEN RAdd[box.R, marginSize] ELSE box.R,
         T |-> box.T]

\* The box applyMarginsRaw computes from the page box `box`, before it is
\* validated.  useBounds / useDims say whether overrideBounds / uniformDims
\* were passed.
NewBox(box, c, pageIndex, useBounds, ob, useDims, ud) ==
    IF c.tablet
    THEN LET origB == box.B
             origT == box.T
             L == IF useBounds THEN ob.L ELSE box.L
             Rt == IF useBounds THEN ob.R ELSE box.R
             B == IF useBounds THEN ob.B ELSE box.B
             T == IF useBounds THEN ob.T ELSE box.T
             epsilon == c.epsilon
             targetRatio == RDiv[c.width, c.height]
             newHeight == IF useDims THEN ud.height ELSE RAdd[RSub[T, B], RMul[epsilon, R(2)]]
             newWidth == IF useDims THEN ud.width ELSE RMul[newHeight, targetRatio]
             contentCy == RDiv[RAdd[T, B], R(2)]
             ratio == NormalizedPosition(contentCy, origB, origT)
             tentativeB == RSub[contentCy, RMul[ratio, newHeight]]
             minT == RAdd[T, epsilon]
             maxB == RSub[B, epsilon]
             newB == Clamp[tentativeB, newHeight, minT, maxB][1]
             newT == Clamp[tentativeB, newHeight, minT, maxB][2]
         IN  IF ApplyRight(c, pageIndex)
             THEN [has |-> TRUE, L |-> RSub[L, epsilon], B |-> newB,
                   R |-> RAdd[RSub[L, epsilon], newWidth], T |-> newT]
             ELSE [has |-> TRUE, L |-> RSub[RAdd[Rt, epsilon], newWidth], B |-> newB,
                   R |-> RAdd[Rt, epsilon], T |-> newT]
    ELSE FixedMargin(box, c, pageIndex)

\* variant: a validation that tests Number.isFinite only
isFiniteOnly(v) == IsFinite(v)

\* isValid of applyMarginsRaw
MaxCoord == 10000000
isValid(v) == IsFinite(v) /\ RLt[RAbs[v], R(MaxCoord)]

ValidBox(nb) == isValid(nb.L) /\ isValid(nb.B) /\ isValid(nb.R) /\ isValid(nb.T)

(***************************************************************************)
(* The handler of a PROCESS_PDF message.                                   *)
(***************************************************************************)
Msg(type, text, pages) == [type |-> type, text |-> text, pages |-> pages]

NoStats == [epsilon |-> R(0), targetRatio |-> R(0), basePageHeight |-> R(0), basePageWidth |-> R(0)]

\* What a request acquires from the engine: ptr of loadDoc ("input"),
\* floatPtrs ("floats"), rawBitmapBuffer ("bitmap"), fileWritePtr
\* ("fileWrite") and writeBlockPtr ("callback") of saveViaRawAPI, the
\* document handle ("doc") and the handle of a loaded page ("page").  A page
\* that is loaded and closed within one iteration leaves no trace here.
Resources == {"input", "floats", "bitmap", "fileWrite", "callback", "doc", "page"}
NoHeap == [held |-> {}, acquired |-> {}, frees |-> [r \in Resources |-> 0]]
\* _malloc / addFunction / FPDF_LoadMemDocument / FPDF_LoadPage
Acquire(h, rs) == [h EXCEPT !.held = @ \cup rs, !.acquired = @ \cup rs]
\* _free / removeFunction / FPDF_CloseDocument / FPDF_ClosePage
Release(h, rs) ==
    [h EXCEPT !.held = @ \ rs,
              !.frees = [r \in Resources |-> IF r \in rs THEN @[r] + 1 ELSE @[r]]]

\* a request with a configuration of cfgs and, when its bytes are well
\* formed, a document of docs
Start(cfgs, docs) ==
    /\ pc = "start"
    /\ config \in cfgs
    /\ docValid \in BOOLEAN
    /\ doc \in (IF docValid THEN docs ELSE {<<>>})
    /\ count = 0
    /\ i = 0
    /\ pageBounds = <<>>
    /\ typicalContentHeight = R(0)
    /\ stats = NoStats
    /\ dims = [j \in 1..Len(doc) |-> NoDims]
    /\ computed = [j \in 1..Len(doc) |-> NoBox]
    /\ mediaBox = [j \in 1..Len(doc) |-> KindBox(doc[j])]
    /\ writes = [j \in 1..Len(doc) |-> 0]
    /\ outbox = <<>>
    /\ faults = 0
    /\ hist = [aggregations |-> 0, pageLoads |-> 0, saveCalls |-> 0, failed |-> {},
               saveFailed |-> FALSE, received |-> config]
    /\ heap = NoHeap

\* the worker as the handler model sees it: the engine is there, the one
\* request is being handled
OneRequest ==
    [env |-> "global", exports |-> TRUE, fired |-> TRUE, pdfiumModule |-> 1, inits |-> 1,
     calls |-> 0, sent |-> 1,
     phase |-> [r \in 1..MaxRequests |-> IF r = 1 THEN "running" ELSE "none"],
     value |-> [r \in 1..MaxRequests |-> IF r = 1 THEN 1 ELSE 0],
     micro |-> <<>>, posted |-> <<[id |-> 0, type |-> "READY"]>>, running |-> 1]

Init == Start(Configs, Documents) /\ worker = OneRequest

\* an engine call may fail while the budget of failures lasts
Outcomes(failures) == {"ok"} \cup (IF faults < MaxFaults THEN failures ELSE {})
Charge(f) == faults' = IF f = "ok" THEN faults ELSE faults + 1

\* variant: a catch block that swallows the error
ThrowSilent(text) ==
    /\ outbox' = outbox
    /\ pc' = "done"

\* catch (err): post ERROR with err.message
Throw(text) ==
    /\ outbox' = Append(outbox, Msg("ERROR", text, <<>>))
    /\ pc' = "done"

\* await initPdfium(), then the sanitization of the configuration
Receive ==
    /\ pc = "start"
    /\ \E f \in Outcomes({"init"}) :
          /\ Charge(f)
          /\ IF f = "init"
             THEN Throw("No PDFium module found.") /\ UNCHANGED config
             ELSE /\ config' = Sanitize(config)
                  /\ pc' = "load"
                  /\ UNCHANGED outbox
    /\ UNCHANGED <<docValid, doc, count, i, pageBounds, typicalContentHeight, stats,
                   dims, computed, mediaBox, writes, hist, heap, worker>>

\* variant: the handle is not tested
LoadUnchecked == FALSE

\* if (!doc): FPDF_LoadMemDocument returns a null handle for bytes that are
\* not a well-formed document
LoadFailed == ~docValid

\* variant: a count that misses the last page
PageCountShort == IF Len(doc) > 0 THEN Len(doc) - 1 ELSE 0

\* FPDF_GetPageCount(doc)
PageCount == Len(doc)

\* loadDoc, FPDF_GetPageCount and the allocation of floatPtrs
LoadDoc ==
    /\ pc = "load"
    /\ IF LoadFailed
       THEN /\ Throw("FPDF_LoadMemDocument failed.")
            /\ heap' = Acquire(heap, {"input"})
            /\ UNCHANGED <<count, i, faults>>
       ELSE \E f \in Outcomes({"malloc"}) :
               /\ Charge(f)
               /\ IF f = "malloc"
                  THEN /\ Throw("Failed to allocate memory for page processing.")
                       /\ heap' = Acquire(heap, {"input", "doc"})
                       /\ UNCHANGED <<count, i>>
                  ELSE /\ count' = PageCount
                       /\ heap' = Acquire(heap, {"input", "doc", "floats", "bitmap"})
                       /\ i' = 0
                       /\ pc' = IF config.tablet THEN "pass1" ELSE "fixed"
                       /\ UNCHANGED outbox
    /\ UNCHANGED <<config, docValid, doc, pageBounds, typicalContentHeight, stats,
                   dims, computed, mediaBox, writes, hist, worker>>

\* the Pass 1 loop continues while i < count
Pass1More == i < count

\* what the iteration of Pass 1 for page index i stores, given the outcome f
\* of the engine calls
Inspect(f) ==
    IF f = "ok" THEN Detected[doc[i + 1]]
    ELSE IF f = "bitmap" THEN Detect(doc[i + 1], FALSE)
    ELSE EmptyFallback

\* one iteration of Pass 1
Pass1Page ==
    /\ pc = "pass1"
    /\ Pass1More
    /\ \E f \in Outcomes({"load", "box", "bitmap"}) :
          /\ Charge(f)
          /\ hist' = [hist EXCEPT
                        !.pageLoads = @ + 1,
                        !.failed = IF f = "ok" THEN @ ELSE @ \cup {i}]
          /\ IF Inspect(f).threw
             THEN /\ Throw("Failed to create bitmap")
                  /\ heap' = Acquire(heap, {"page"})
                  /\ UNCHANGED <<pageBounds, i>>
             ELSE /\ pageBounds' = Append(pageBounds, Inspect(f))
                  /\ i' = i + 1
                  /\ UNCHANGED <<pc, outbox, heap>>
    /\ UNCHANGED <<config, docValid, doc, count, typicalContentHeight, stats,
                   dims, computed, mediaBox, writes, worker>>

\* after Pass 1: median height, unit heuristic, base dimensions
Aggregate ==
    /\ pc = "pass1"
    /\ ~Pass1More
    /\ typicalContentHeight' = Median(pageBounds)
    /\ stats' = BaseStats(typicalContentHeight', config)
    /\ hist' = [hist EXCEPT !.aggregations = @ + 1]
    /\ pc' = "pass2"
    /\ i' = 0
    /\ UNCHANGED <<config, docValid, doc, count, pageBounds, dims, computed, mediaBox,
                   writes, outbox, faults, heap, worker>>

\* the call of applyMarginsRaw in Pass 2, for the page at index i; dims' holds
\* the { pageWidth, pageHeight } just planned for it
TabletBox ==
    NewBox(mediaBox[i + 1], config, i, TRUE, pageBounds[i + 1], TRUE, dims'[i + 1])

\* the call of applyMarginsRaw in the fixed-margin loop, for the page at index i
FixedBox == NewBox(mediaBox[i + 1], config, i, FALSE, EmptyFallback, FALSE, NoDims)

\* the validated write at the end of applyMarginsRaw; computed' holds the new box
WriteBox ==
    IF ValidBox(computed'[i + 1])
    THEN /\ mediaBox' = [mediaBox EXCEPT ![i + 1] = computed'[i + 1]]
         /\ writes' = [writes EXCEPT ![i + 1] = @ + 1]
    ELSE UNCHANGED <<mediaBox, writes>>

\* one iteration of Pass 2
Pass2Page ==
    /\ pc = "pass2"
    /\ i < count
    /\ \E f \in Outcomes({"load", "box"}) :
          /\ Charge(f)
          /\ hist' = [hist EXCEPT !.pageLoads = @ + 1]
          /\ dims' = IF f = "load" THEN dims
                     ELSE [dims EXCEPT ![i + 1] = PlanPage(pageBounds[i + 1], stats)]
          /\ IF f = "ok"
             THEN /\ computed' = [computed EXCEPT ![i + 1] = TabletBox]
                  /\ WriteBox
             ELSE UNCHANGED <<computed, mediaBox, writes>>
    /\ i' = i + 1
    /\ UNCHANGED <<pc, config, docValid, doc, count, pageBounds, typicalContentHeight,
                   stats, outbox, heap, worker>>

\* one iteration of the fixed-margin loop
FixedPage ==
    /\ pc = "fixed"
    /\ i < count
    /\ \E f \in Outcomes({"load", "box"}) :
          /\ Charge(f)
          /\ hist' = [hist EXCEPT !.pageLoads = @ + 1]
          /\ IF f = "ok"
             THEN /\ computed' = [computed EXCEPT ![i + 1] = FixedBox]
                  /\ WriteBox
             ELSE UNCHANGED <<computed, mediaBox, writes>>
    /\ i' = i + 1
    /\ UNCHANGED <<pc, config, docValid, doc, count, pageBounds, typicalContentHeight,
                   stats, dims, outbox, heap, worker>>

\* variant: a loop that stops one page short
LoopOverEarly == i >= count - 1

\* the exit of the loop that writes the boxes: i < count no longer holds
LoopOver == i >= count

\* variant: the result of FPDF_SaveAsCopy is not tested
SaveThrowsUnchecked(f) == f = "addFunction"

\* the outcomes of saveViaRawAPI that throw: addFunction is missing, or
\* FPDF_SaveAsCopy reports no success
SaveThrows(f) == f \in {"addFunction", "save"}

\* the frees before saveViaRawAPI, the allocations and frees inside it and,
\* when it returns, FPDF_CloseDocument and the free of the input bytes
SaveHeap(f) ==
    LET buffersFreed == Release(heap, {"floats", "bitmap"})
        saved == Release(Acquire(buffersFreed, {"callback", "fileWrite"}),
                         {"fileWrite", "callback"})
    IN  IF f = "addFunction" THEN buffersFreed
        ELSE IF SaveThrows(f) THEN saved
        ELSE Release(saved, {"doc", "input"})

\* the page loop is over: saveViaRawAPI, then COMPLETE
Save ==
    /\ pc \in {"pass2", "fixed"}
    /\ LoopOver
    /\ \E f \in Outcomes({"addFunction", "save"}) :
          /\ Charge(f)
          /\ hist' = [hist EXCEPT !.saveCalls = IF f = "addFunction" THEN @ ELSE @ + 1,
                                   !.saveFailed = (f # "ok")]
          /\ IF SaveThrows(f)
             THEN Throw(IF f = "addFunction" THEN "addFunction missing."
                                             ELSE "FPDF_SaveAsCopy failed.")
             ELSE /\ outbox' = Append(outbox, Msg("COMPLETE", "", mediaBox))
                  /\ pc' = "done"
          /\ heap' = SaveHeap(f)
    /\ UNCHANGED <<config, docValid, doc, count, i, pageBounds, typicalContentHeight,
                   stats, dims, computed, mediaBox, writes, worker>>

Next ==
    \/ Receive
    \/ LoadDoc
    \/ Pass1Page
    \/ Aggregate
    \/ Pass2Page
    \/ FixedPage
    \/ Save

Spec == Init /\ [][Next]_vars

\* the same handler on one-page documents of every kind and on every raw
\* configuration
EdgeInit == Start(RawConfigs, EdgeDocuments) /\ worker = OneRequest
EdgeSpec == EdgeInit /\ [][Next]_vars

\* the handler runs to its end once the message is delivered
FairSpec == Spec /\ WF_vars(Next)

TypeOK ==
    /\ pc \in {"start", "load", "pass1", "pass2", "fixed", "done"}
    /\ i \in 0..count
    /\ count \in 0..MaxPages
    /\ faults \in 0..MaxFaults
    /\ Len(pageBounds) <= count

(***************************************************************************)
(* The worker around the handler: the engine handle pdfiumModule, the      *)
(* callback Module.onRuntimeInitialized, initPdfium and the delivery of    *)
(* several PROCESS_PDF messages.  JavaScript runs a task to its end, then  *)
(* the microtasks in order, before the next task; after its one await the  *)
(* handler is synchronous, so the processing of a request is one run from  *)
(* its continuation to the message it posts.                               *)
(*                                                                         *)
(* The environment is the script pdfium.js: it defines a factory function  *)
(* (env = "factory"), or it instantiates the global Module itself          *)
(* (env = "global"), or neither (env = "none").  Module values: 0 is null, *)
(* 1 is self.Module, 1 + r the object the factory call of request r        *)
(* resolved with when that is another object; -1 stands for a rejection.   *)
(***************************************************************************)
Requests == 1..MaxRequests
Environments == {"factory", "global", "none"}

WorkerStart(e) ==
    [env |-> e, exports |-> FALSE, fired |-> FALSE, pdfiumModule |-> 0, inits |-> 0,
     calls |-> 0, sent |-> 0,
     phase |-> [r \in Requests |-> "none"],
     value |-> [r \in Requests |-> 0],
     micro |-> <<>>, posted |-> <<>>, running |-> 0]

\* the variables of the handler, which stand still while the worker model
\* moves
handlerVars == <<pc, config, docValid, doc, count, i, pageBounds, typicalContentHeight,
                 stats, dims, computed, mediaBox, writes, outbox, faults, hist, heap>>

\* between two tasks: nothing runs and no microtask is left
Idle == worker.running = 0 /\ worker.micro = <<>>

\* initializeLibrary(module)
initializeLibrary(w) == [w EXCEPT !.inits = @ + 1]

\* the synchronous part of initPdfium, run by the handler of request r
initPdfium(w, r) ==
    IF w.pdfiumModule # 0
    THEN [w EXCEPT !.phase[r] = "handler", !.value[r] = w.pdfiumModule,
                   !.micro = Append(@, r)]
    ELSE IF w.env = "factory"
    THEN [w EXCEPT !.calls = @ + 1, !.phase[r] = "factory"]
    ELSE IF w.exports
    THEN initializeLibrary([w EXCEPT !.pdfiumModule = 1, !.phase[r] = "handler",
                                     !.value[r] = 1, !.micro = Append(@, r)])
    ELSE [w EXCEPT !.phase[r] = "handler", !.value[r] = -1, !.micro = Append(@, r)]

\* the next PROCESS_PDF message is delivered: self.onmessage runs up to
\* `await initPdfium()`
Deliver ==
    /\ Idle
    /\ worker.sent < MaxRequests
    /\ worker' = initPdfium([worker EXCEPT !.sent = @ + 1], worker.sent + 1)
    /\ UNCHANGED handlerVars

\* the promise of the factory call of request r is fulfilled
Resolve ==
    /\ Idle
    /\ \E r \in Requests :
          /\ worker.phase[r] = "factory"
          /\ \E v \in {1, 1 + r} :
                worker' = [worker EXCEPT !.phase[r] = "init", !.value[r] = v,
                                         !.micro = Append(@, r)]
    /\ UNCHANGED handlerVars

\* the global Module gets its exports (self.Module.asm, _FPDF_InitLibrary)
ExportsReady ==
    /\ Idle
    /\ worker.env = "global"
    /\ ~worker.exports
    /\ worker' = [worker EXCEPT !.exports = TRUE]
    /\ UNCHANGED handlerVars

\* self.Module.onRuntimeInitialized: once the exports are there, or, with a
\* factory that was handed self.Module, once a call of it is under way
onRuntimeInitialized ==
    /\ Idle
    /\ ~worker.fired
    /\ \/ worker.env = "global" /\ worker.exports
       \/ worker.env = "factory" /\ worker.calls > 0
    /\ worker' =
          IF worker.pdfiumModule = 0
          THEN initializeLibrary([worker EXCEPT !.fired = TRUE, !.pdfiumModule = 1,
                                     !.posted = Append(@, [id |-> 0, type |-> "READY"])])
          ELSE [worker EXCEPT !.fired = TRUE]
    /\ UNCHANGED handlerVars

\* the first microtask: the rest of initPdfium after `await self[name](...)`,
\* or the handler's continuation after `await initPdfium()`
Microtask ==
    /\ worker.running = 0
    /\ worker.micro # <<>>
    /\ LET r == Head(worker.micro)
       IN  worker' =
              IF worker.phase[r] = "init"
              THEN initializeLibrary([worker EXCEPT !.pdfiumModule = worker.value[r],
                                         !.phase[r] = "handler",
                                         !.micro = Append(Tail(@), r)])
              ELSE [worker EXCEPT !.phase[r] = "running", !.running = r,
                                  !.micro = Tail(@)]
    /\ UNCHANGED handlerVars

\* the synchronous rest of the handler: the document is processed and
\* COMPLETE or ERROR is posted
Respond ==
    /\ worker.running # 0
    /\ \E t \in (IF worker.value[worker.running] = -1 THEN {"ERROR"}
                                                      ELSE {"COMPLETE", "ERROR"}) :
          worker' = [worker EXCEPT !.phase[worker.running] = "done", !.running = 0,
                                   !.posted = Append(@, [id |-> worker.running, type |-> t])]
    /\ UNCHANGED handlerVars

WorkerNext ==
    \/ Deliver
    \/ Resolve
    \/ ExportsReady
    \/ onRuntimeInitialized
    \/ Microtask
    \/ Respond

\* the handler variables stand still in this specification
WorkerInit ==
    /\ Start({Fixed(R(500), "left")}, {<<>>})
    /\ ~docValid
    /\ \E e \in Environments : worker = WorkerStart(e)

WorkerSpec == WorkerInit /\ [][WorkerNext]_vars

(***************************************************************************)
(* Vocabulary of the properties.                                           *)
(***************************************************************************)
Pages == 1..Len(doc)
Posted(type) == \E m \in 1..Len(outbox) : outbox[m].type = type
BoxWidth(bx) == RSub[bx.R, bx.L]
BoxHeight(bx) == RSub[bx.T, bx.B]
NonEmptyPages == {j \in 1..Len(pageBounds) : ~pageBounds[j].isEmpty}
HeightOf(j) == RSub[pageBounds[j].T, pageBounds[j].B]
WidthOf(j) == RSub[pageBounds[j].R, pageBounds[j].L]

(***************************************************************************)
(* C1.  In tablet mode, for every page with natural dimensions             *)
(* W = max(baseWidth, contentWidth + 2 eps) and                            *)
(* H = max(baseHeight, contentHeight + 2 eps): if W / H < targetRatio the  *)
(* written box is H * targetRatio wide and H high; if W / H >= targetRatio *)
(* the written box is W x H.  Stated for non-negative padding, where W and *)
(* H are positive.                                                         *)
(***************************************************************************)
C1_TooTallGrowsWidth ==
    \A j \in Pages :
        (config.tablet /\ writes[j] > 0 /\ RGe[config.epsilon, R(0)]) =>
            LET W == dims[j].natW
                H == dims[j].natH
                tr == stats.targetRatio
            IN  IF RLt[RDiv[W, H], tr]
                THEN /\ BoxWidth(mediaBox[j]) = RMul[H, tr]
                     /\ BoxHeight(mediaBox[j]) = H
                ELSE /\ BoxWidth(mediaBox[j]) = W
                     /\ BoxHeight(mediaBox[j]) = H

(***************************************************************************)
(* C2.  In a tablet-mode run the phases follow one another without a       *)
(* backward step: the typical content height is computed once, when every  *)
(* page has its Pass 1 record and no box has been written; afterwards it   *)
(* and the records never change; a box is written only after it was        *)
(* computed; saving is requested only after the last Pass 2 iteration.     *)
(***************************************************************************)
Rank(p) ==
    CASE p = "start" -> 0
      [] p = "load"  -> 1
      [] p = "pass1" -> 2
      [] p = "pass2" -> 3
      [] p = "fixed" -> 3
      [] p = "done"  -> 4

C2_Step ==
    config.tablet =>
        /\ Rank(pc') >= Rank(pc)
        /\ (hist'.aggregations # hist.aggregations =>
                /\ hist.aggregations = 0 /\ hist'.aggregations = 1
                /\ pc = "pass1" /\ pc' = "pass2"
                /\ Len(pageBounds) = count
                /\ \A j \in Pages : writes[j] = 0)
        /\ (typicalContentHeight' # typicalContentHeight => hist'.aggregations # hist.aggregations)
        /\ (hist.aggregations > 0 =>
                /\ typicalContentHeight' = typicalContentHeight
                /\ pageBounds' = pageBounds
                /\ stats' = stats)
        /\ ((mediaBox' # mediaBox \/ writes' # writes) =>
                hist.aggregations = 1 /\ pc = "pass2")
        /\ (hist'.saveCalls # hist.saveCalls =>
                hist.aggregations = 1 /\ pc = "pass2" /\ i = count /\ hist.saveCalls = 0)

C2_PhaseOrder == [][C2_Step]_vars

C2_Witness ==
    /\ config.tablet /\ pc = "done" /\ Posted("COMPLETE")
    /\ count >= 2 /\ hist.aggregations = 1
    /\ \A j \in Pages : writes[j] = 1

(***************************************************************************)
(* C3.  Every request eventually gets exactly one message, COMPLETE or     *)
(* ERROR: never a second one, and COMPLETE carries the document as it is   *)
(* after the page loop has run over every page and saving succeeded.       *)
(***************************************************************************)
C3_Delivered ==
    \A m \in 1..Len(outbox) :
        outbox[m].type = "COMPLETE" =>
            /\ pc = "done" /\ i = count /\ count = Len(doc)
            /\ outbox[m].pages = mediaBox
            /\ hist.saveCalls = 1 /\ ~hist.saveFailed

C3_OneResponse ==
    /\ <>(Len(outbox) = 1)
    /\ [](Len(outbox) <= 1 /\ C3_Delivered)
    /\ [][outbox # <<>> => outbox' = outbox]_vars

C3_Witness ==
    /\ Len(outbox) = 1 /\ outbox[1].type = "COMPLETE"
    /\ \E j \in Pages : writes[j] > 0 /\ outbox[1].pages[j] # KindBox(doc[j])

(***************************************************************************)
(* C4.  Once computed, with n >= 1 non-empty pages the typical content     *)
(* height is the element of rank floor(n / 2) (counting from 0) among the  *)
(* content heights of the non-empty pages: it is one of them, at most      *)
(* floor(n / 2) heights are smaller and more than floor(n / 2) are not     *)
(* larger.  Empty pages do not count.                                      *)
(***************************************************************************)
C4_Median ==
    (hist.aggregations > 0 /\ NonEmptyPages # {}) =>
        LET n == Cardinality(NonEmptyPages)
            t == typicalContentHeight
        IN  /\ \E j \in NonEmptyPages : HeightOf(j) = t
            /\ Cardinality({j \in NonEmptyPages : RLt[HeightOf(j), t]}) <= n \div 2
            /\ Cardinality({j \in NonEmptyPages : RLe[HeightOf(j), t]}) > n \div 2

\* a short page, a normal page and a long page: the median is the normal
\* height and differs from the mean
C4_Witness ==
    /\ hist.aggregations > 0
    /\ Cardinality(NonEmptyPages) = 3
    /\ \E a, b, c \in NonEmptyPages :
          /\ RLt[HeightOf(a), HeightOf(b)] /\ RLt[HeightOf(b), HeightOf(c)]
          /\ typicalContentHeight = HeightOf(b)
          /\ typicalContentHeight #
                RDiv[RAdd[RAdd[HeightOf(a), HeightOf(b)], HeightOf(c)], R(3)]

(***************************************************************************)
(* C5.  For every page planned in Pass 2: before the aspect correction the *)
(* height is max(baseHeight, contentHeight + 2 eps) and the width is       *)
(* max(baseWidth, contentWidth + 2 eps), with                              *)
(* baseHeight = typicalContentHeight + 2 eps and                           *)
(* baseWidth = baseHeight * targetWidth / targetHeight; the planned height *)
(* and width are not below any of these bounds.                            *)
(***************************************************************************)
PlannedPages == {j \in Pages : dims[j].set}
ContentH(j) == IF pageBounds[j].isEmpty THEN R(0) ELSE HeightOf(j)
ContentW(j) == IF pageBounds[j].isEmpty THEN R(0) ELSE WidthOf(j)
TwoEps == RMul[R(2), stats.epsilon]
BaseHeight == RAdd[typicalContentHeight, TwoEps]
BaseWidth == RDiv[RMul[BaseHeight, config.width], config.height]

C5_AtLeastBaseline ==
    \A j \in PlannedPages :
        LET hc == RAdd[ContentH(j), TwoEps]
            wc == RAdd[ContentW(j), TwoEps]
        IN  /\ dims[j].natH = (IF RGe[BaseHeight, hc] THEN BaseHeight ELSE hc)
            /\ dims[j].natW = (IF RGe[BaseWidth, wc] THEN BaseWidth ELSE wc)
            /\ RGe[dims[j].height, BaseHeight] /\ RGe[dims[j].height, hc]
            /\ RGe[dims[j].width, BaseWidth] /\ RGe[dims[j].width, wc]

(***************************************************************************)
(* C6.  The aspect correction changes the planned geometry only when       *)
(* width / height > targetRatio; then the height becomes                   *)
(* width / targetRatio and the width is kept; otherwise both are left      *)
(* untouched; neither the width nor the height ever decreases.             *)
(***************************************************************************)
C6_OnlyGrowsHeight ==
    \A j \in PlannedPages :
        LET W == dims[j].natW
            H == dims[j].natH
            tr == RDiv[config.width, config.height]
        IN  /\ dims[j].width = W
            /\ IF DivGt(W, H, tr)
               THEN RMul[dims[j].height, tr] = W
               ELSE dims[j].height = H
            /\ RGe[dims[j].height, H]

(***************************************************************************)
(* C7.  When the bytes are not a well-formed document (the engine's load   *)
(* returns a null handle) the request ends with the single message ERROR   *)
(* "FPDF_LoadMemDocument failed.": no COMPLETE, no page loaded, no box     *)
(* written, no page pass entered and saving never requested.               *)
(***************************************************************************)
C7_LoadError ==
    ~docValid =>
        /\ pc \in {"start", "load", "done"}
        /\ ~Posted("COMPLETE")
        /\ hist.pageLoads = 0 /\ hist.saveCalls = 0 /\ hist.aggregations = 0
        /\ \A j \in DOMAIN writes : writes[j] = 0
        /\ (pc = "done" /\ faults = 0) =>
               outbox = <<Msg("ERROR", "FPDF_LoadMemDocument failed.", <<>>)>>

C7_Witness ==
    /\ ~docValid /\ pc = "done" /\ faults = 0
    /\ outbox = <<Msg("ERROR", "FPDF_LoadMemDocument failed.", <<>>)>>

(***************************************************************************)
(* C8.  When saving fails (FPDF_SaveAsCopy reports no success, or          *)
(* addFunction is missing) the request ends with exactly one message, an   *)
(* ERROR whose text names the save stage and differs from the load         *)
(* failure's; no COMPLETE is posted although the page loop had run over    *)
(* every page.                                                             *)
(***************************************************************************)
C8_SaveError ==
    hist.saveFailed =>
        /\ pc = "done"
        /\ Len(outbox) = 1
        /\ outbox[1].type = "ERROR"
        /\ outbox[1].text \in {"FPDF_SaveAsCopy failed.", "addFunction missing."}
        /\ outbox[1].text # "FPDF_LoadMemDocument failed."
        /\ ~Posted("COMPLETE")
        /\ i = count /\ count = Len(doc)

C8_Witness ==
    /\ hist.saveFailed /\ hist.saveCalls = 1
    /\ outbox = <<Msg("ERROR", "FPDF_SaveAsCopy failed.", <<>>)>>
    /\ count >= 2 /\ \A j \in Pages : writes[j] = 1

(***************************************************************************)
(* C9.  A failure to inspect one page in Pass 1 (the page does not load,   *)
(* its box is unavailable, or its bitmap cannot be created) leaves that    *)
(* page with isEmpty = TRUE and does not abort the run: when inspection    *)
(* failures are the only failures, the request ends with COMPLETE.         *)
(***************************************************************************)
C9_InspectionDegrades ==
    (hist.failed # {} /\ faults = Cardinality(hist.failed) /\ pc = "done") =>
        /\ Posted("COMPLETE")
        /\ ~Posted("ERROR")
        /\ \A k \in hist.failed : pageBounds[k + 1].isEmpty

(***************************************************************************)
(* C10.  A page box is only ever written with four coordinates that are    *)
(* finite and of magnitude below 1e7, and the written box is the computed  *)
(* one; when a computed coordinate fails the test the page is not written  *)
(* and keeps the box it came with; and the run still goes over every page  *)
(* and ends with COMPLETE.                                                 *)
(***************************************************************************)
InRange(v) == v.d > 0 /\ v.n < MaxCoord * v.d /\ -v.n < MaxCoord * v.d
AllInRange(bx) == InRange(bx.L) /\ InRange(bx.B) /\ InRange(bx.R) /\ InRange(bx.T)

C10_ValidatedWrite ==
    /\ \A j \in Pages :
          /\ writes[j] > 0 => (AllInRange(mediaBox[j]) /\ mediaBox[j] = computed[j])
          /\ writes[j] = 0 => mediaBox[j] = KindBox(doc[j])
          /\ (computed[j].has /\ ~AllInRange(computed[j])) => writes[j] = 0
    /\ (pc = "done" /\ docValid /\ faults = 0) =>
          /\ Posted("COMPLETE")
          /\ \A j \in Pages : computed[j].has

\* a page whose computed box is out of range keeps its box while another
\* page of the same document is written
C10_Witness ==
    /\ pc = "done" /\ faults = 0 /\ Posted("COMPLETE")
    /\ \E j, k \in Pages :
          /\ computed[j].has /\ ~AllInRange(computed[j])
          /\ writes[j] = 0 /\ mediaBox[j] = KindBox(doc[j])
          /\ j < k /\ writes[k] = 1

(***************************************************************************)
(* C11.  In tablet mode, once the handler is past its sanitization (and    *)
(* so before the document is loaded and before any geometry is computed)   *)
(* a received target width or height that is not finite, zero or negative  *)
(* has been replaced by 1000, a received padding that is not finite by 0,  *)
(* and every other value is the received one; the target ratio the planner *)
(* uses is width / height of these values, finite and strictly positive.   *)
(***************************************************************************)
Positive(v) == v.d > 0 /\ v.n > 0
PastSanitization == pc \in {"load", "pass1", "pass2", "fixed"} \/ hist.pageLoads > 0 \/ count > 0

C11_Sanitized ==
    /\ (pc = "start" /\ config.tablet) =>
          /\ config = hist.received
          /\ hist.pageLoads = 0 /\ count = 0 /\ hist.aggregations = 0
          /\ \A j \in Pages : ~dims[j].set /\ ~computed[j].has
    /\ (PastSanitization /\ config.tablet) =>
          LET got == hist.received
          IN  /\ config.width = (IF Positive(got.width) THEN got.width ELSE R(1000))
              /\ config.height = (IF Positive(got.height) THEN got.height ELSE R(1000))
              /\ config.epsilon = (IF got.epsilon.d > 0 THEN got.epsilon ELSE R(0))
              /\ Positive(config.width) /\ Positive(config.height)
              /\ config.epsilon.d > 0
    /\ (hist.aggregations > 0) =>
          /\ Positive(stats.targetRatio)
          /\ stats.targetRatio.n * config.height.n * config.width.d
                = stats.targetRatio.d * config.width.n * config.height.d

\* a request with a negative width, a height of zero and a padding that is
\* not a number, planned with ratio 1
C11_Witness ==
    /\ hist.received.tablet
    /\ hist.received.width = R(-1000) /\ hist.received.height = R(0)
    /\ hist.received.epsilon = NaN
    /\ hist.aggregations > 0 /\ stats.targetRatio = R(1)
    /\ \E j \in Pages : writes[j] = 1

(***************************************************************************)
(* C12.  Every box written to a page in tablet mode has strictly positive  *)
(* width and height: right > left and top > bottom, whatever the document  *)
(* and the sanitized configuration, a negative padding included.           *)
(***************************************************************************)
C12_PositiveBox ==
    config.tablet =>
        \A j \in Pages :
            writes[j] > 0 =>
                /\ RGt[mediaBox[j].R, mediaBox[j].L]
                /\ RGt[mediaBox[j].T, mediaBox[j].B]

(***************************************************************************)
(* C13.  The handler never adds, removes or reorders pages: the page count *)
(* it works with, and the one it has when it asks for the save, is the     *)
(* page count of the loaded document; and a page index receives at most    *)
(* one box update per run, the pages being updated in index order.         *)
(***************************************************************************)
C13_SamePages ==
    /\ Len(mediaBox) = Len(doc) /\ Len(writes) = Len(doc)
    /\ pc \in {"pass1", "pass2", "fixed"} => count = Len(doc)
    /\ \A j \in Pages : writes[j] <= 1 /\ (writes[j] = 1 => j <= i)
    /\ (hist.saveCalls > 0 \/ Posted("COMPLETE")) => (count = Len(doc) /\ i = Len(doc))
    /\ \A m \in 1..Len(outbox) :
          outbox[m].type = "COMPLETE" => Len(outbox[m].pages) = Len(doc)

\* a saved document of several pages, each updated once
C13_Witness ==
    /\ pc = "done" /\ Posted("COMPLETE") /\ hist.saveCalls = 1
    /\ Len(doc) >= 2
    /\ \A j \in Pages : writes[j] = 1

(***************************************************************************)
(* C14.  In tablet mode, when no clamp applies, the new bottom edge keeps  *)
(* the normalized position of the content's vertical center:               *)
(*   (contentCy - newB) / newHeight = (contentCy - origB) / origHeight,    *)
(* where origB and origHeight are the bottom and the height of the box the *)
(* page came with (the quotient is defined when that height is not 0).     *)
(***************************************************************************)
ComposedPages == {j \in Pages : config.tablet /\ computed[j].has /\ dims[j].set}
OrigBox(j) == KindBox(doc[j])
ContentCy(j) == RDiv[RAdd[pageBounds[j].T, pageBounds[j].B], R(2)]
\* tentativeB of applyMarginsRaw for page j
TentativeB(j) ==
    RSub[ContentCy(j),
         RMul[NormalizedPosition(ContentCy(j), OrigBox(j).B, OrigBox(j).T), dims[j].height]]
\* neither branch of the clamp is taken
NoClamp(j) ==
    /\ ~RLt[RAdd[TentativeB(j), dims[j].height], RAdd[pageBounds[j].T, config.epsilon]]
    /\ ~RGt[TentativeB(j), RSub[pageBounds[j].B, config.epsilon]]

C14_KeepsPosition ==
    \A j \in ComposedPages :
        (NoClamp(j) /\ dims[j].height # R(0) /\ BoxHeight(OrigBox(j)) # R(0))
        => /\ computed[j].T = RAdd[computed[j].B, dims[j].height]
           /\ RDiv[RSub[ContentCy(j), computed[j].B], dims[j].height]
                = RDiv[RSub[ContentCy(j), OrigBox(j).B], BoxHeight(OrigBox(j))]

\* a written page whose content sits near the top of its original box and
\* keeps that position, no clamp being needed
C14_Witness ==
    \E j \in ComposedPages :
        /\ NoClamp(j) /\ writes[j] = 1
        /\ RGt[dims[j].height, R(0)]
        /\ RGt[RDiv[RSub[ContentCy(j), OrigBox(j).B], BoxHeight(OrigBox(j))], RDiv[R(3), R(4)]]
        /\ RDiv[RSub[ContentCy(j), computed[j].B], dims[j].height]
             = RDiv[RSub[ContentCy(j), OrigBox(j).B], BoxHeight(OrigBox(j))]

(***************************************************************************)
(* C15.  For every composed page in tablet mode newT - newB is the planned *)
(* height exactly (the clamp shifts the box and never resizes it), and     *)
(* after the clamp the content of a page that has content lies at least    *)
(* epsilon (the configured padding) inside both edges:                     *)
(*   newB <= contentB - epsilon  and  newT >= contentT + epsilon.          *)
(***************************************************************************)
C15_ShiftNeverResize ==
    \A j \in ComposedPages :
        /\ RSub[computed[j].T, computed[j].B] = dims[j].height
        /\ ~pageBounds[j].isEmpty =>
              /\ RLe[computed[j].B, RSub[pageBounds[j].B, config.epsilon]]
              /\ RGe[computed[j].T, RAdd[pageBounds[j].T, config.epsilon]]

(***************************************************************************)
(* C16.  In tablet mode, for side = right, or alternating on an even       *)
(* 0-based page index, the new box has left = contentLeft - epsilon and    *)
(* right = left + plannedWidth; for side = left, or alternating on an odd  *)
(* index, it has right = contentRight + epsilon and                        *)
(* left = right - plannedWidth.  In every case the width of the new box is *)
(* the planned width, and a missing side counts as right.                  *)
(***************************************************************************)
MarginOnRight(j) ==
    \/ config.side \in {"right", ""}
    \/ config.side = "alternating" /\ (j - 1) % 2 = 0
MarginOnLeft(j) ==
    \/ config.side = "left"
    \/ config.side = "alternating" /\ (j - 1) % 2 = 1

Surplus(j) == RSub[dims[j].width, WidthOf(j)]
Inset(j) ==
    IF MarginOnRight(j) THEN RSub[pageBounds[j].L, computed[j].L]
    ELSE RSub[computed[j].R, pageBounds[j].R]

C17_BezelInset ==
    \A j \in ComposedPages :
        (config.epsilon = R(0) /\ ~pageBounds[j].isEmpty /\ RGt[Surplus(j), R(0)])
        => RGt[Inset(j), R(0)]

(***************************************************************************)
(* C18.  A rendered pixel is content iff at least one of its three colour  *)
(* channels is below 250; a pixel whose colour channels are all >= 250 is  *)
(* background whatever its alpha.  So a page that is rendered is detected  *)
(* as empty iff none of its drawings has a colour channel below 250; on    *)
(* the same page with the same geometry a drawing at gray 252 leaves the   *)
(* page empty and the same drawing at gray 229 is detected with its drawn  *)
(* extent.                                                                 *)
(***************************************************************************)
InspectedPages == {j \in 1..Len(pageBounds) : (j - 1) \notin hist.failed}
Rendered(k) == BoxWidth(KindBox(k)) # R(0) /\ BoxHeight(KindBox(k)) # R(0)
Dark(c) == c[1] < 250 \/ c[2] < 250 \/ c[3] < 250
\* the rectangle of the drawing shared by the narrow pages, in page units
\* (pixel columns 20..59 and rows 100..299 at 5/4 pixel per unit)
DrawnExtent == Box(16, 560, 48, 720)
SameBox(b, bx) == b.L = bx.L /\ b.B = bx.B /\ b.R = bx.R /\ b.T = bx.T

C18_Threshold ==
    \A j \in InspectedPages :
        /\ Rendered(doc[j]) =>
              (pageBounds[j].isEmpty <=> ~\E r \in KindInk(doc[j]) : Dark(r.c))
        /\ doc[j] \in {"faint", "clear"} => pageBounds[j].isEmpty
        /\ doc[j] \in {"light", "tinted"} =>
              ~pageBounds[j].isEmpty /\ SameBox(pageBounds[j], DrawnExtent)

\* the drawing at gray 229 has been detected, on the page and with the
\* geometry on which the drawing at gray 252 is not
C18_Witness ==
    /\ doc = <<"light">> /\ InspectedPages = {1}
    /\ ~pageBounds[1].isEmpty /\ SameBox(pageBounds[1], DrawnExtent)
    /\ KindBox("faint") = KindBox("light")
    /\ \A r \in KindInk("faint") : \E q \in KindInk("light") :
          r.x0 = q.x0 /\ r.x1 = q.x1 /\ r.y0 = q.y0 /\ r.y1 = q.y1
               /\ r.c = Gray(252) /\ q.c = Gray(229)

(***************************************************************************)
(* C19.  When the scan of a rendered page finds no content pixel, the      *)
(* detection returns isEmpty = true with a box of zero area at the center  *)
(* of the page: left = right = (pageLeft + pageRight) / 2 and              *)
(* bottom = top = (pageBottom + pageTop) / 2.  The result is never null:   *)
(* every inspected page has a record with its four edges.                  *)
(***************************************************************************)
NoContentPixel(k) == \A r \in KindInk(k) : ~Dark(r.c)
CenterX(k) == RDiv[RAdd[KindBox(k).L, KindBox(k).R], R(2)]
CenterY(k) == RDiv[RAdd[KindBox(k).B, KindBox(k).T], R(2)]

C19_EmptyAtCenter ==
    /\ \A j \in 1..Len(pageBounds) : pageBounds[j] \in BoundsRecords
    /\ \A j \in InspectedPages :
          (Rendered(doc[j]) /\ NoContentPixel(doc[j])) =>
              /\ pageBounds[j].isEmpty
              /\ pageBounds[j].L = CenterX(doc[j]) /\ pageBounds[j].R = CenterX(doc[j])
              /\ pageBounds[j].B = CenterY(doc[j]) /\ pageBounds[j].T = CenterY(doc[j])

\* a page with nothing drawn on it, reported at the point (300, 400)
C19_Witness ==
    /\ doc = <<"blank">> /\ InspectedPages = {1}
    /\ pageBounds[1] = Bounds(R(300), R(400), R(300), R(400), TRUE)

(***************************************************************************)
(* C20.  For every page whose box is degenerate (zero width or zero        *)
(* height) or inverted (right < left or top < bottom) the bounds detection *)
(* returns isEmpty = true, and it never throws: the run is not ended by    *)
(* the detection on such a page.                                           *)
(***************************************************************************)
Degenerate(bx) == BoxWidth(bx) = R(0) \/ BoxHeight(bx) = R(0)
Inverted(bx) == RLt[bx.R, bx.L] \/ RLt[bx.T, bx.B]
DetectionThrew(j) ==
    /\ pc = "done" /\ i = j - 1 /\ Len(pageBounds) = j - 1
    /\ \E m \in 1..Len(outbox) :
          outbox[m].type = "ERROR" /\ outbox[m].text = "Failed to create bitmap"

C20_OddBoxEmpty ==
    \A j \in Pages :
        (Degenerate(KindBox(doc[j])) \/ Inverted(KindBox(doc[j]))) =>
            /\ j \in InspectedPages => pageBounds[j].isEmpty
            /\ ~DetectionThrew(j)

(***************************************************************************)
(* C21.  For every page marked empty the planner uses                      *)
(* contentHeight = contentWidth = 0 and the planned geometry is exactly    *)
(* the baseline: width = basePageWidth and height = basePageHeight,        *)
(* whatever the document, the target ratio and the padding.                *)
(***************************************************************************)
C21_EmptyIsBaseline ==
    \A j \in PlannedPages :
        pageBounds[j].isEmpty =>
            /\ ContentH(j) = R(0) /\ ContentW(j) = R(0)
            /\ dims[j].width = stats.basePageWidth
            /\ dims[j].height = stats.basePageHeight

(***************************************************************************)
(* C22.  If no page of the document is non-empty (every page is empty or   *)
(* failed, or the document has no page) the typicalContentHeight the       *)
(* handler computes is the constant 500: never 0, negative or undefined.   *)
(***************************************************************************)
C22_Fallback ==
    (hist.aggregations > 0 /\ NonEmptyPages = {}) =>
        /\ typicalContentHeight = R(500)
        /\ stats.basePageHeight = RAdd[R(500), RMul[stats.epsilon, R(2)]]

\* a document of two pages without content, both inspected, aggregated
C22_Witness ==
    /\ hist.aggregations > 0 /\ NonEmptyPages = {}
    /\ Len(pageBounds) = 2 /\ doc = <<"blank", "blank">>
    /\ hist.failed = {}
    /\ typicalContentHeight = R(500)

(***************************************************************************)
(* C23.  When typicalContentHeight > 200 and 0 < padding < 5 the baseline  *)
(* and the dimensions of every page are computed with padding * 72; in     *)
(* every other case (padding 0 or negative, padding >= 5, or               *)
(* typicalContentHeight <= 200) they are computed with the padding as      *)
(* configured.                                                             *)
(***************************************************************************)
LooksLikeInches ==
    /\ typicalContentHeight.n > 200 * typicalContentHeight.d
    /\ config.epsilon.n > 0
    /\ config.epsilon.n < 5 * config.epsilon.d
UsedPadding == IF LooksLikeInches THEN RMul[config.epsilon, R(72)] ELSE config.epsilon

C23_UnitHeuristic ==
    (hist.aggregations > 0) =>
        /\ stats.epsilon = UsedPadding
        /\ stats.basePageHeight = RAdd[typicalContentHeight, RMul[R(2), UsedPadding]]
        /\ stats.basePageWidth = RMul[stats.basePageHeight, RDiv[config.width, config.height]]
        /\ \A j \in PlannedPages :
              /\ dims[j].natH = RMax[stats.basePageHeight,
                                     RAdd[ContentH(j), RMul[R(2), UsedPadding]]]
              /\ dims[j].natW = RMax[stats.basePageWidth,
                                     RAdd[ContentW(j), RMul[R(2), UsedPadding]]]

\* a padding of 2 used as 144 on a document whose typical height is 720
C23_Witness ==
    /\ hist.aggregations > 0 /\ config.epsilon = R(2)
    /\ typicalContentHeight = R(720) /\ stats.epsilon = R(144)
    /\ stats.basePageHeight = R(1008)
    /\ \E j \in PlannedPages : dims[j].natH = R(1008)

(***************************************************************************)
(* C24.  At the end of every request, whether it ends with COMPLETE or     *)
(* with ERROR, every allocation made for it (input bytes, page-box floats, *)
(* bitmap buffer, file-write struct and callback) has been released        *)
(* exactly once, and the document handle and every loaded page have been   *)
(* closed.                                                                 *)
(***************************************************************************)
C24_AllReleased ==
    /\ \A r \in Resources : heap.frees[r] <= 1
    /\ pc = "done" =>
          /\ heap.held = {}
          /\ \A r \in heap.acquired \ {"page"} : heap.frees[r] = 1

(***************************************************************************)
(* C25.  Across every interleaving of the runtime-initialized callback and *)
(* any number of PROCESS_PDF messages, messages that arrive while a        *)
(* factory call is pending included, the engine library is initialized at  *)
(* most once per worker and the shared handle pdfiumModule, once set, is   *)
(* never replaced by another value.                                        *)
(***************************************************************************)
C25_Step ==
    /\ worker'.inits <= 1
    /\ worker.pdfiumModule # 0 => worker'.pdfiumModule = worker.pdfiumModule
C25_InitOnce == [][C25_Step]_vars

(***************************************************************************)
(* C26.  A drawable that covers the whole page, within 5 units of the page *)
(* box on all four edges, does not contribute to the detected box: every   *)
(* inspected page gets the bounds of its other drawables alone, so a page  *)
(* with only such a background is empty and a page with a background and   *)
(* smaller content gets the box of the smaller content.                    *)
(***************************************************************************)
\* the rectangle r of a page of kind k in document units
InkBox(k, r) ==
    LET bx == KindBox(k)
        maxDim == RMax[RAbs[BoxWidth(bx)], RAbs[BoxHeight(bx)]]
        scale == RDiv[R(MAX_BITMAP_DIM), maxDim]
        normL == RMin[bx.L, bx.R]
        normT == RMax[bx.B, bx.T]
    IN  [L |-> RAdd[normL, RDiv[R(r.x0), scale]], R |-> RAdd[normL, RDiv[R(r.x1 + 1), scale]],
         T |-> RSub[normT, RDiv[R(r.y0), scale]], B |-> RSub[normT, RDiv[R(r.y1 + 1), scale]]]

\* r lies within 5 units of the page box on all four edges
FullPage(k, r) ==
    LET bx == KindBox(k)
        ib == InkBox(k, r)
    IN  /\ RLe[RAbs[RSub[ib.L, bx.L]], R(5)] /\ RLe[RAbs[RSub[ib.B, bx.B]], R(5)]
        /\ RLe[RAbs[RSub[ib.R, bx.R]], R(5)] /\ RLe[RAbs[RSub[ib.T, bx.T]], R(5)]

Foreground(k) == {r \in KindInk(k) : ~FullPage(k, r)}

C26_BackgroundIgnored ==
    \A j \in InspectedPages :
        Foreground(doc[j]) # KindInk(doc[j]) =>
            pageBounds[j] = getTightContentBounds(Foreground(doc[j]), OrigBox(j).L, OrigBox(j).B,
                                                  OrigBox(j).R, OrigBox(j).T, TRUE,
                                                  MAX_BITMAP_DIM)

(***************************************************************************)
(* C27.  In fixed-margin mode the box of each page is widened by exactly   *)
(* marginSize on the selected side only: the right edge moves by           *)
(* +marginSize for side right or alternating on an even 0-based index, the *)
(* left edge by -marginSize for side left or alternating on an odd index;  *)
(* the bottom, the top and the opposite edge stay where they were.  The    *)
(* new box is the box of the page whenever its coordinates are valid.      *)
(***************************************************************************)
MarginPages == {j \in Pages : ~config.tablet /\ computed[j].has}

DarkInk(k) == {r \in KindInk(k) : Dark(r.c)}

\* the smallest rectangle of pixels around everything dark drawn on a page
InkExtent(k) ==
    LET D == DarkInk(k)
    IN  Ink((CHOOSE r \in D : \A q \in D : r.x0 <= q.x0).x0,
            (CHOOSE r \in D : \A q \in D : r.y0 <= q.y0).y0,
            (CHOOSE r \in D : \A q \in D : r.x1 >= q.x1).x1,
            (CHOOSE r \in D : \A q \in D : r.y1 >= q.y1).y1, Gray(0))

C28_TightBox ==
    \A j \in InspectedPages :
        Rendered(doc[j]) /\ DarkInk(doc[j]) # {} =>
            /\ ~pageBounds[j].isEmpty
            /\ SameBox(pageBounds[j], InkBox(doc[j], InkExtent(doc[j])))
            /\ RLt[pageBounds[j].L, pageBounds[j].R]
            /\ RLt[pageBounds[j].B, pageBounds[j].T]

\* the page of three rectangles was inspected: its box runs from the left and
\* right edge of the middle rectangle and from the top of the first to the
\* bottom of the last
C28_Witness ==
    /\ doc = <<"stepped">>
    /\ 1 \in InspectedPages
    /\ SameBox(pageBounds[1], Box(16, 708, 64, 720))

(***************************************************************************)
(* C29.  The padding applyMarginsRaw uses for the vertical clamp and the   *)
(* horizontal inset is the effective padding the planner sized the page    *)
(* with, the x72 correction included: on every composed page the content   *)
(* lies exactly the effective padding from the edge next to it and at      *)
(* least the effective padding from the bottom and the top edge.           *)
(***************************************************************************)
C29_SamePadding ==
    \A j \in ComposedPages \cap NonEmptyPages :
        /\ Inset(j) = stats.epsilon
        /\ RGe[RSub[pageBounds[j].B, computed[j].B], stats.epsilon]
        /\ RGe[RSub[computed[j].T, pageBounds[j].T], stats.epsilon]

(***************************************************************************)
(* C30.  When several PROCESS_PDF messages are delivered to one worker,    *)
(* their COMPLETE and ERROR responses are posted in the order the requests *)
(* were received, and the processing of two requests never interleaves:    *)
(* at most one request is between its continuation and its response.  The *)
(* requests that arrive before the engine is initialized are included.     *)
(***************************************************************************)
Responses == SelectSeq(worker.posted, LAMBDA m : m.type \in {"COMPLETE", "ERROR"})

C30_InOrder ==
    /\ \A a, b \in 1..Len(Responses) : a < b => Responses[a].id < Responses[b].id
    /\ Cardinality({r \in Requests : worker.phase[r] = "running"}) <= 1
====
